---- MODULE Spec2Model ----
\* A model of ehtim/survey.py: the parameter table, the ParameterSet object,
\* the per-run imaging pipeline with its self-calibration loops, the resume
\* guard and the files a survey leaves in its output directory.
EXTENDS Integers, Sequences, FiniteSets, TLC

\* ------------------------------------------------------------------ bounds

\* largest sc_phase / sc_ap iteration count explored
MaxSc == 2
\* number of run_survey invocations explored (the first one and the resumed ones)
MaxInv == 2
\* longest swept value list explored by the table specification
MaxListLen == 2
\* largest |u|, |v| coordinate and largest flux value explored by the
\* calibration specification
MaxUV == 2

\* ------------------------------------------------------------------ text
\* File names are sequences of one-character strings, so that two names are
\* equal exactly when the strings the program builds are equal.

DigitChars == <<"0", "1", "2", "3", "4", "5", "6", "7", "8", "9">>

RECURSIVE DecDigits(_)
\* the decimal digits of a natural number, most significant first
DecDigits(n) ==
  IF n < 10 THEN <<DigitChars[n + 1]>>
  ELSE DecDigits(n \div 10) \o <<DigitChars[(n % 10) + 1]>>

\* '%0.7i' % i : at least `width` digits, zero-filled on the left
ZeroPad(digits, width) ==
  IF Len(digits) >= width THEN digits
  ELSE [k \in 1..(width - Len(digits)) |-> "0"] \o digits

Outfile_ignore_index(outfile_base, i) ==
  outfile_base \o <<"_">> \o ZeroPad(DecDigits(0), 7)

\* self.outfile = '%s_%0.7i' % (self.outfile_base, self.i)
Outfile(outfile_base, i) ==
  outfile_base \o <<"_">> \o ZeroPad(DecDigits(i), 7)

\* os.path.join(a, b) of posixpath
PathJoin(a, b) ==
  IF Len(b) > 0 /\ b[1] = "/" THEN b
  ELSE IF Len(a) = 0 \/ a[Len(a)] = "/" THEN a \o b
  ELSE a \o <<"/">> \o b

SufFits    == <<".", "f", "i", "t", "s">>
SufCaltab  == <<"/">>
SufUvfits  == <<".", "u", "v", "f", "i", "t", "s">>
SufPdf     == <<".", "p", "d", "f">>
SufImgsum  == <<"_", "i", "m", "g", "s", "u", "m", ".", "p", "d", "f">>
SufStats   == <<"_", "s", "t", "a", "t", "s", ".", "c", "s", "v">>
SufParams  == <<"_", "p", "a", "r", "a", "m", "s", ".", "c", "s", "v">>

Suffixes == {SufFits, SufCaltab, SufUvfits, SufPdf, SufImgsum, SufStats, SufParams}

\* os.path.join(self.outpath, '%s<suffix>' % (self.outfile))
OutPath(outpath, outfile, suffix) == PathJoin(outpath, outfile \o suffix)

\* ------------------------------------------------------------------ angles
\* An angular quantity is val * RADPERUAS^exp: exp counts how many times the
\* microarcsecond-to-radian constant has been multiplied in.

Uas(x) == [val |-> x, exp |-> 0]

\* x *= eh.RADPERUAS
TimesRadPerUas(x) == IF x.val = 0 THEN x ELSE [val |-> x.val, exp |-> x.exp + 1]

\* ------------------------------------------------------------------ table

\* the argument names of create_survey_psets, in declaration order
ParamNames ==
  <<"zbl", "sys_noise", "avg_time", "prior_fwhm", "sc_phase", "xdw_phase",
    "sc_ap", "xdw_ap", "amp", "cphase", "logcamp", "simple", "l1", "tv",
    "tv2", "flux", "epsilon_tv">>

\* the default value lists of create_survey_psets (weights in tenths, so
\* amp = 0.2 is 2; zbl, sys_noise and epsilon_tv are opaque tokens of the
\* imaging library and stand as small integers)
DefaultLists ==
  [zbl |-> <<1>>, sys_noise |-> <<2>>, avg_time |-> <<"scan">>,
   prior_fwhm |-> <<Uas(40)>>, sc_phase |-> <<2>>, xdw_phase |-> <<10>>,
   sc_ap |-> <<2>>, xdw_ap |-> <<1>>, amp |-> <<2>>, cphase |-> <<10>>,
   logcamp |-> <<10>>, simple |-> <<1>>, l1 |-> <<1>>, tv |-> <<1>>,
   tv2 |-> <<1>>, flux |-> <<1>>, epsilon_tv |-> <<1>>]

EmptyRow == [k \in {} |-> 0]

RECURSIVE product(_, _)
\* paramsurvey.params.product(params): one row per combination of positions
\* of the value lists, the last parameter varying fastest
product(names, params) ==
  IF names = <<>> THEN <<EmptyRow>>
  ELSE LET k    == Head(names)
           rest == product(Tail(names), params)
           n    == Len(rest)
       IN  [j \in 1..(Len(params[k]) * n) |->
              (k :> params[k][((j - 1) \div n) + 1]) @@ rest[((j - 1) % n) + 1]]

RowIndex_from_one(j) == j

\* np.array(range(len(psets)))[j-1], for the j-th row (j = 1..len)
RowIndex(j) == j - 1

\* create_survey_psets: the product table with the index column i added
create_survey_psets(params) ==
  LET rows == product(ParamNames, params)
  IN  [j \in 1..Len(rows) |-> ("i" :> RowIndex(j)) @@ rows[j]]


\* create_params_fixed: its defaults, overridden by the arguments given.
\* Names are one-character-sequence strings; gaintol is in hundredths and
\* SEFD_error_budget in tenths.
FixedDefaults ==
  [ground_truth_img |-> "None", save_imgsums |-> FALSE, save_uvfits |-> TRUE,
   save_pdf |-> FALSE, save_stats |-> TRUE, save_caltab |-> TRUE,
   nproc |-> 1, backend |-> "multiprocessing", ttype |-> "nfft",
   selfcal |-> TRUE, gaintol |-> <<2, 20>>, niter_static |-> 3,
   blurfrac |-> 1, maxit |-> 100, stop |-> 1, fov |-> Uas(128),
   npixels |-> 64, reverse_taper_uas |-> Uas(5), uv_zblcut |-> 1,
   SEFD_error_budget |-> [s \in {"AA", "AX", "GL", "LM", "MG", "MM", "PV", "SW"} |-> 1]]

create_params_fixed(args) == args @@ FixedDefaults

\* ------------------------------------------------------------------ ParameterSet

MergeAttrs_row_last(paramset, params_fixed) == paramset @@ params_fixed

\* __init__, the two setattr loops: every key of paramset, then every key of
\* params_fixed, so that a fixed value wins on a key both have
MergeAttrs(paramset, params_fixed) == params_fixed @@ paramset

HasAttr(self, k) == k \in DOMAIN self

\* setattr(self, k, v)
SetAttr(self, k, v) == (k :> v) @@ self

\* ParameterSet.__init__
ParameterSetInit(paramset, params_fixed) ==
  LET a == MergeAttrs(paramset, params_fixed)
  IN  ("outfile" :> Outfile(a.outfile_base, a.i))
      @@ ("fov" :> TimesRadPerUas(a.fov))
      @@ ("reverse_taper_uas" :> TimesRadPerUas(a.reverse_taper_uas))
      @@ ("prior_fwhm" :> TimesRadPerUas(a.prior_fwhm))
      @@ a

\* the path of one output of a ParameterSet
OutName(self, suffix) == OutPath(self.outpath, self.outfile, suffix)

\* ------------------------------------------------------------------ files
\* The output directory: a set of files, each with its path and the row whose
\* run wrote it.

os_path_exists_never(fs, path) == FALSE

\* os.path.exists(path)
os_path_exists(fs, path) == \E f \in fs : f.path = path

\* writing a file replaces what was at its path
WriteFile(fs, path, r) ==
  {f \in fs : f.path # path} \cup {[path |-> path, by |-> r]}

\* ------------------------------------------------------------------ observations
\* An observation is its measurement table and the sequence of library
\* operations that produced it. A measurement has its (u, v) coordinates and
\* eight visibility and noise fields, each a rational <<numerator, denominator>>.

VisFields == {"vis", "qvis", "uvis", "vvis", "sigma", "qsigma", "usigma", "vsigma"}

Measurement(u, v, x, s) ==
  [u |-> u, v |-> v, vis |-> x, qvis |-> x, uvis |-> x, vvis |-> x,
   sigma |-> s, qsigma |-> s, usigma |-> s, vsigma |-> s]

\* x *= zbl / zbl_tot
ScaleBy(x, zbl, zbl_tot) == <<x[1] * zbl, x[2] * zbl_tot>>

IsLongBaseline_strict(u, v, uv_zblcut) ==
  uv_zblcut < 0 \/ u * u + v * v > uv_zblcut * uv_zblcut

\* (u ** 2 + v ** 2) ** 0.5 >= uv_zblcut
IsLongBaseline(u, v, uv_zblcut) ==
  uv_zblcut <= 0 \/ u * u + v * v >= uv_zblcut * uv_zblcut

\* the short-baseline rescaling loop of preimcal
RescaleShort(data, zbl, zbl_tot, uv_zblcut) ==
  IF zbl = zbl_tot THEN data
  ELSE [j \in DOMAIN data |->
          IF IsLongBaseline(data[j].u, data[j].v, uv_zblcut) THEN data[j]
          ELSE [fld \in DOMAIN data[j] |->
                  IF fld \in VisFields THEN ScaleBy(data[j][fld], zbl, zbl_tot)
                  ELSE data[j][fld]]]

\* an operation of the imaging library applied to an observation
ObsOp(obs, op) == [obs EXCEPT !.hist = Append(@, op)]


\* ------------------------------------------------------------------ state

VARIABLES
  lists,        \* the value lists given to create_survey_psets
  built,        \* whether create_survey_psets has built the table
  psets,        \* the parameter table: a sequence of row dicts
  params_fixed, \* the fixed-parameter dict shared by every run
  uvfits,       \* the input visibility file: [zbl_tot, data]
  invocation,   \* how many times run_survey has been called
  pc,           \* per row: where its worker is
  self,         \* per row: the ParameterSet object of its current run
  img,          \* per row: the local variables of make_img
  log,          \* per row: the calls made by its current run
  files,        \* the files in the output directory
  guard         \* per row: what run() saw when it was called, and whether
                \* a run of the row has gone through every stage

vars == <<lists, built, psets, params_fixed, uvfits, invocation, pc, self, img, log,
          files, guard>>

Rows == DOMAIN psets

NoSelf == [k \in {} |-> 0]

NoImg == [sc_p_idx |-> 0, sc_ap_idx |-> 0, data_term |-> NoSelf,
          reg_term |-> NoSelf, systematic_noise |-> NoSelf,
          caltab |-> [bound |-> FALSE, round |-> 0],
          imgr |-> [rounds |-> 0 - 1, blur |-> 0, zblterm |-> FALSE]]

NoLog == [stages |-> <<>>, imaging |-> <<>>, selfcal |-> <<>>, boosts |-> <<>>,
          writes |-> <<>>]

NoGuard == [called |-> FALSE, marker |-> FALSE, files |-> {}, completed |-> FALSE]

\* no worker is on the row: before the first survey, after run() returned,
\* after make_img raised at its last line, after the run was interrupted
Terminal == {"idle", "done", "failed", "aborted"}

\* the positions at which a worker is inside run_pset
Running ==
  {"queued", "run", "load_data", "preimcal", "init_img", "make_img",
   "phase_loop", "ap_loop", "make_img_end", "output_results", "save_caltab",
   "save_uvfits", "save_pdf", "save_imgsums", "save_params", "save_statistics"}

\* the files at the output paths of row r
FilesOf(r) ==
  LET outfile == Outfile(params_fixed.outfile_base, psets[r].i)
      paths   == {OutPath(params_fixed.outpath, outfile, suf) : suf \in Suffixes}
  IN  {f \in files : f.path \in paths}

Stage(r, name) == [log EXCEPT ![r].stages = Append(@, name)]

\* ------------------------------------------------------------------ survey driver

\* run_survey: paramsurvey.map dispatches run_pset once per row
run_survey ==
  /\ \A r \in Rows : pc[r] \in Terminal
  /\ invocation < MaxInv
  /\ invocation' = invocation + 1
  /\ pc' = [r \in Rows |-> "queued"]
  /\ self' = [r \in Rows |-> NoSelf]
  /\ img' = [r \in Rows |-> NoImg]
  /\ log' = [r \in Rows |-> NoLog]
  /\ guard' = [r \in Rows |-> [guard[r] EXCEPT !.called = FALSE, !.marker = FALSE,
                                               !.files = {}]]
  /\ UNCHANGED <<lists, built, psets, params_fixed, uvfits, files>>

\* run_pset up to the call of PSet.run(): os.makedirs and the constructor
run_pset(r) ==
  /\ pc[r] = "queued"
  /\ self' = [self EXCEPT ![r] = ParameterSetInit(psets[r], params_fixed)]
  /\ pc' = [pc EXCEPT ![r] = "run"]
  /\ UNCHANGED <<lists, built, psets, params_fixed, uvfits, invocation, img, log, files, guard>>

\* ParameterSet.run, the resume guard
run(r) ==
  /\ pc[r] = "run"
  /\ LET outcsv == OutName(self[r], SufParams)
     IN  /\ pc' = [pc EXCEPT ![r] = IF os_path_exists(files, outcsv) THEN "done"
                                    ELSE "load_data"]
         /\ guard' = [guard EXCEPT ![r].called = TRUE,
                                   ![r].marker = \E f \in files : f.path = outcsv,
                                   ![r].files = FilesOf(r)]
  /\ UNCHANGED <<lists, built, psets, params_fixed, uvfits, invocation, self, img, log, files>>

\* the worker is killed, or a call into the imaging library or the file
\* system raises and nothing catches it: the run ends where it stands and
\* its ParameterSet is gone
Interrupt(r) ==
  /\ pc[r] \in Running
  /\ pc' = [pc EXCEPT ![r] = "aborted"]
  /\ self' = [self EXCEPT ![r] = NoSelf]
  /\ img' = [img EXCEPT ![r] = NoImg]
  /\ log' = [log EXCEPT ![r] = NoLog]
  /\ UNCHANGED <<lists, built, psets, params_fixed, uvfits, invocation, files, guard>>

\* ------------------------------------------------------------------ stages

\* load_data applied to a ParameterSet
LoadOf(s) ==
  SetAttr(s, "obs",
          [data |-> uvfits.data,
           hist |-> <<"load_uvfits", "add_scans",
                      IF s.avg_time = "scan" THEN "avg_coherent_scan"
                      ELSE "avg_coherent_time">>])

load_data(r) ==
  /\ pc[r] = "load_data"
  /\ self' = [self EXCEPT ![r] = LoadOf(@)]
  /\ log' = Stage(r, "load_data")
  /\ pc' = [pc EXCEPT ![r] = "preimcal"]
  /\ UNCHANGED <<lists, built, psets, params_fixed, uvfits, invocation, img, files, guard>>

\* preimcal applied to a ParameterSet
PreimcalOf(s) ==
  LET zbl_tot  == uvfits.zbl_tot
      obs0     == ObsOp(s.obs, "flag_empty_sites")
      obs1     == ObsOp([obs0 EXCEPT !.data = RescaleShort(@, s.zbl, zbl_tot, s.uv_zblcut)],
                        "reorder_tarr_snr")
      tapered  == IF s.reverse_taper_uas.val > 0 THEN ObsOp(obs1, "reverse_taper") ELSE obs1
      obs_sc   == ObsOp(tapered, "add_fractional_noise")
  IN  SetAttr(SetAttr(SetAttr(SetAttr(SetAttr(s,
        "zbl_tot", zbl_tot), "obs_orig", obs0), "obs", obs1),
        "obs_sc", obs_sc), "obs_sc_init", obs_sc)

preimcal(r) ==
  /\ pc[r] = "preimcal"
  /\ self' = [self EXCEPT ![r] = PreimcalOf(@)]
  /\ log' = Stage(r, "preimcal")
  /\ pc' = [pc EXCEPT ![r] = "init_img"]
  /\ UNCHANGED <<lists, built, psets, params_fixed, uvfits, invocation, img, files, guard>>

\* init_img applied to a ParameterSet: the Gaussian prior image
InitImgOf(s) == SetAttr(s, "initimg", [rounds |-> 0, blur |-> 0, zblterm |-> FALSE])

init_img(r) ==
  /\ pc[r] = "init_img"
  /\ self' = [self EXCEPT ![r] = InitImgOf(@)]
  /\ log' = Stage(r, "init_img")
  /\ pc' = [pc EXCEPT ![r] = "make_img"]
  /\ UNCHANGED <<lists, built, psets, params_fixed, uvfits, invocation, img, files, guard>>


\* ------------------------------------------------------------------ make_img

\* hasattr(self, k) and self.k != 0.
NonZeroAttr(s, k) == HasAttr(s, k) /\ s[k] # 0

\* hasattr(self, 'diag_closure') and self.diag_closure is True
DiagClosure(s) == HasAttr(s, "diag_closure") /\ s.diag_closure = TRUE

\* the data_term dict built at the head of make_img
DataTerm(s) ==
  LET keys == {k \in {"vis", "amp"} : NonZeroAttr(s, k)}
              \cup (IF DiagClosure(s)
                    THEN {k \in {"logcamp_diag", "cphase_diag"} : NonZeroAttr(s, k)}
                    ELSE {k \in {"logcamp", "cphase"} : NonZeroAttr(s, k)})
  IN  [k \in keys |-> CASE k = "logcamp_diag" -> s.logcamp
                        [] k = "cphase_diag"  -> s.cphase
                        [] OTHER              -> s[k]]

\* building data_term reads an attribute the object does not have
DataTermRaises(s) ==
  /\ DiagClosure(s)
  /\ \/ NonZeroAttr(s, "logcamp_diag") /\ ~HasAttr(s, "logcamp")
     \/ NonZeroAttr(s, "cphase_diag") /\ ~HasAttr(s, "cphase")

\* the reg_term dict
RegTerm(s) ==
  [k \in {k \in {"simple", "tv2", "tv", "l1", "flux", "rgauss"} : NonZeroAttr(s, k)} |-> s[k]]

\* systematic_noise: a copy of SEFD_error_budget with every value x replaced
\* by ((1 + x) ** 0.5 - 1) * 0.25, kept as the term it is computed from
SystematicNoise(s) ==
  [k \in DOMAIN s.SEFD_error_budget |-> [floor_of |-> s.SEFD_error_budget[k]]]

\* imgr.make_image_I started from image init: imgr.out_last() afterwards
MakeImageI(init) == [init EXCEPT !.rounds = @ + 1]

\* im.blur_circ(res)
BlurCirc(im) == [im EXCEPT !.blur = @ + 1]

\* one call of imgr.make_image_I, as the log records it
ImagingCall(s, init, data_term) ==
  [obs |-> s.obs_sc.hist, init |-> init, data_term |-> data_term]

\* one call of eh.selfcal, as the log records it
SelfcalCall(obs, method, at) == [obs |-> obs.hist, method |-> method, at |-> at]

\* for key in dterms: data_term[key] *= factor
Boost(data_term, factor) == [k \in DOMAIN data_term |-> data_term[k] * factor]

PhaseBoostCond_every(sc_p_idx) == TRUE

\* the condition of the weight boost in the phase-only loop
PhaseBoostCond(sc_p_idx) == sc_p_idx = 0

APBoostCond_own_index(sc_p_idx, sc_ap_idx) == sc_ap_idx = 0

\* the condition of the weight boost in the amplitude+phase loop
APBoostCond(sc_p_idx, sc_ap_idx) == sc_p_idx = 0

\* if self.selfcal:
SelfcalEnabled(s) == s.selfcal

SelfcalTarget_working(s) == s.obs_sc

\* the observation the self-calibration of a loop iteration is given, and
\* the one its calibration table is applied to: self.obs_sc_init
SelfcalTarget(s) == s.obs_sc_init

\* make_img from its head to the start of the phase-only loop: the data and
\* regularizer terms, the static imaging and, with self-calibration on, the
\* phase-only self-calibration of the static image
make_img(r) ==
  /\ pc[r] = "make_img"
  /\ IF DataTermRaises(self[r])
     THEN /\ pc' = [pc EXCEPT ![r] = "failed"]
          /\ log' = Stage(r, "make_img")
          /\ UNCHANGED <<self, img>>
     ELSE LET s   == self[r]
              dt  == DataTerm(s)
              out == MakeImageI(s.initimg)
              sc  == SelfcalEnabled(s)
          IN  /\ img' = [img EXCEPT ![r] =
                   [NoImg EXCEPT !.data_term = dt, !.reg_term = RegTerm(s),
                                 !.systematic_noise = SystematicNoise(s),
                                 !.imgr = out]]
              /\ self' = [self EXCEPT ![r] =
                   IF sc THEN SetAttr(s, "obs_sc", ObsOp(s.obs_sc, "selfcal_phase")) ELSE s]
              /\ log' = [log EXCEPT
                   ![r].stages = Append(@, "make_img"),
                   ![r].imaging = Append(@, ImagingCall(s, s.initimg, dt)),
                   ![r].selfcal = IF sc THEN Append(@, SelfcalCall(s.obs_sc, "phase", "static"))
                                  ELSE @]
              /\ pc' = [pc EXCEPT ![r] = IF sc THEN "phase_loop" ELSE "make_img_end"]
  /\ UNCHANGED <<lists, built, psets, params_fixed, uvfits, invocation, files, guard>>

\* while sc_p_idx < self.sc_phase: one iteration, or the exit to sc_ap_idx = 0
phase_loop(r) ==
  /\ pc[r] = "phase_loop"
  /\ IF img[r].sc_p_idx < self[r].sc_phase
     THEN LET s    == self[r]
              init == BlurCirc(img[r].imgr)
              b    == PhaseBoostCond(img[r].sc_p_idx)
              dt   == IF b THEN Boost(img[r].data_term, s.xdw_phase) ELSE img[r].data_term
          IN  /\ img' = [img EXCEPT ![r].data_term = dt,
                                    ![r].imgr = MakeImageI(init),
                                    ![r].sc_p_idx = @ + 1]
              /\ self' = [self EXCEPT ![r] =
                   SetAttr(s, "obs_sc", ObsOp(SelfcalTarget(s), "selfcal_phase"))]
              /\ log' = [log EXCEPT
                   ![r].boosts = IF b THEN Append(@, <<"xdw_phase", img[r].sc_p_idx>>) ELSE @,
                   ![r].imaging = Append(@, ImagingCall(s, init, dt)),
                   ![r].selfcal = Append(@, SelfcalCall(SelfcalTarget(s), "phase", "phase_loop"))]
              /\ UNCHANGED pc
     ELSE /\ img' = [img EXCEPT ![r].sc_ap_idx = 0]
          /\ pc' = [pc EXCEPT ![r] = "ap_loop"]
          /\ UNCHANGED <<self, log>>
  /\ UNCHANGED <<lists, built, psets, params_fixed, uvfits, invocation, files, guard>>

\* while sc_ap_idx < self.sc_ap: one iteration, or the exit
ap_loop(r) ==
  /\ pc[r] = "ap_loop"
  /\ IF img[r].sc_ap_idx < self[r].sc_ap
     THEN LET s    == self[r]
              init == BlurCirc(img[r].imgr)
              b    == APBoostCond(img[r].sc_p_idx, img[r].sc_ap_idx)
              dt   == IF b THEN Boost(img[r].data_term, s.xdw_ap) ELSE img[r].data_term
          IN  /\ img' = [img EXCEPT ![r].data_term = dt,
                                    ![r].imgr = MakeImageI(init),
                                    ![r].caltab = [bound |-> TRUE, round |-> img[r].sc_ap_idx],
                                    ![r].sc_ap_idx = @ + 1]
              /\ self' = [self EXCEPT ![r] =
                   SetAttr(s, "obs_sc", ObsOp(SelfcalTarget(s), "applycal"))]
              /\ log' = [log EXCEPT
                   ![r].boosts = IF b THEN Append(@, <<"xdw_ap", img[r].sc_ap_idx>>) ELSE @,
                   ![r].imaging = Append(@, ImagingCall(s, init, dt)),
                   ![r].selfcal = Append(@, SelfcalCall(SelfcalTarget(s), "both", "ap_loop"))]
              /\ UNCHANGED pc
     ELSE /\ pc' = [pc EXCEPT ![r] = "make_img_end"]
          /\ UNCHANGED <<self, img, log>>
  /\ UNCHANGED <<lists, built, psets, params_fixed, uvfits, invocation, files, guard>>

CaltabBound_always(caltab) == TRUE

\* the local caltab of make_img has been assigned: reading it does not raise
CaltabBound(caltab) == caltab.bound

\* self.im_out = imgr.out_last().copy(); self.caltab = caltab, which raises
\* UnboundLocalError when no amplitude+phase iteration has bound caltab
make_img_end(r) ==
  /\ pc[r] = "make_img_end"
  /\ self' = [self EXCEPT ![r] =
       IF CaltabBound(img[r].caltab)
       THEN SetAttr(SetAttr(@, "im_out", img[r].imgr), "caltab", img[r].caltab)
       ELSE SetAttr(@, "im_out", img[r].imgr)]
  /\ pc' = [pc EXCEPT ![r] = IF CaltabBound(img[r].caltab) THEN "output_results"
                             ELSE "failed"]
  /\ UNCHANGED <<lists, built, psets, params_fixed, uvfits, invocation, img, log, files, guard>>


\* ------------------------------------------------------------------ output

\* output_results up to the saving of the image: the flux-restored image,
\* the self-calibration of the original observation against it, the blur
\* that undoes the reverse taper, and im_out.save_fits
output_results(r) ==
  /\ pc[r] = "output_results"
  /\ LET s         == self[r]
         im_addcmp == [s.im_out EXCEPT !.zblterm = TRUE]
         im_out    == IF s.reverse_taper_uas.val > 0 THEN BlurCirc(s.im_out) ELSE s.im_out
     IN  /\ self' = [self EXCEPT ![r] =
              SetAttr(SetAttr(SetAttr(s, "im_addcmp", im_addcmp),
                      "obs_sc_addcmp", ObsOp(s.obs_orig, "selfcal_both")),
                      "im_out", im_out)]
         /\ log' = [log EXCEPT
              ![r].stages = Append(@, "output_results"),
              ![r].selfcal = Append(@, SelfcalCall(s.obs_orig, "both", "output_results")),
              ![r].writes = Append(@, SufFits)]
         /\ files' = WriteFile(files, OutName(s, SufFits), r)
  /\ pc' = [pc EXCEPT ![r] = "save_caltab"]
  /\ UNCHANGED <<lists, built, psets, params_fixed, uvfits, invocation, img, guard>>

\* one conditional save of output_results
SaveIf(r, at, wanted, suffix, next) ==
  /\ pc[r] = at
  /\ files' = IF wanted THEN WriteFile(files, OutName(self[r], suffix), r) ELSE files
  /\ log' = [log EXCEPT ![r].writes = IF wanted THEN Append(@, suffix) ELSE @]
  /\ pc' = [pc EXCEPT ![r] = next]
  /\ UNCHANGED <<lists, built, psets, params_fixed, uvfits, invocation, self, img, guard>>

save_caltab(r) ==
  SaveIf(r, "save_caltab", HasAttr(self[r], "save_caltab") /\ self[r].save_caltab = TRUE,
         SufCaltab, "save_uvfits")

save_uvfits(r) ==
  SaveIf(r, "save_uvfits", self[r].save_uvfits, SufUvfits, "save_pdf")

save_pdf(r) ==
  SaveIf(r, "save_pdf", self[r].save_pdf, SufPdf, "save_imgsums")

save_imgsums(r) ==
  SaveIf(r, "save_imgsums", self[r].save_imgsums, SufImgsum, "save_params")

\* a run of the row went through every stage
Completed(r) == [guard EXCEPT ![r].completed = TRUE]

\* save_params: the two keys written into the row dict, and the params csv;
\* then run() goes on to the statistics if they are wanted
save_params(r) ==
  /\ pc[r] = "save_params"
  /\ psets' = [psets EXCEPT ![r] =
       ("fov" :> self[r].fov) @@ ("zbl_tot" :> self[r].zbl_tot) @@ @]
  /\ files' = WriteFile(files, OutName(self[r], SufParams), r)
  /\ log' = [log EXCEPT ![r].stages = Append(@, "save_params"),
                        ![r].writes = Append(@, SufParams)]
  /\ pc' = [pc EXCEPT ![r] = IF self[r].save_stats THEN "save_statistics" ELSE "done"]
  /\ guard' = IF self[r].save_stats THEN guard ELSE Completed(r)
  /\ UNCHANGED <<lists, built, params_fixed, uvfits, invocation, self, img>>

\* save_statistics: no ground-truth comparison unless an image is given;
\* the chi-squared values, one more self-calibration, the stats csv
save_statistics(r) ==
  /\ pc[r] = "save_statistics"
  /\ self' = [self EXCEPT ![r] =
       SetAttr(@, "obs_sc_addcmp_sys", ObsOp(@.obs_sc_init, "selfcal_both"))]
  /\ log' = [log EXCEPT
       ![r].stages = Append(@, "save_statistics"),
       ![r].selfcal = Append(@, SelfcalCall(self[r].obs_sc_init, "both", "save_statistics")),
       ![r].writes = Append(@, SufStats)]
  /\ files' = WriteFile(files, OutName(self[r], SufStats), r)
  /\ pc' = [pc EXCEPT ![r] = "done"]
  /\ guard' = Completed(r)
  /\ UNCHANGED <<lists, built, psets, params_fixed, uvfits, invocation, img>>

\* ------------------------------------------------------------------ the survey

\* the positions of one worker
Step(r) ==
  \/ run_pset(r) \/ run(r)
  \/ load_data(r) \/ preimcal(r) \/ init_img(r)
  \/ make_img(r) \/ phase_loop(r) \/ ap_loop(r) \/ make_img_end(r)
  \/ output_results(r) \/ save_caltab(r) \/ save_uvfits(r) \/ save_pdf(r)
  \/ save_imgsums(r) \/ save_params(r) \/ save_statistics(r)

\* the surveys explored: two rows that differ in sc_ap, or one row
SurveyLists ==
  {[DefaultLists EXCEPT !.sc_phase = <<1>>, !.sc_ap = ap, !.xdw_ap = <<3>>] :
     ap \in {<<1>>, <<0, 1>>, <<1, 2>>}}

\* the fixed parameters explored
SurveyFixed ==
  {create_params_fixed(
     [infile |-> <<"d">>, outfile_base |-> <<"b">>, outpath |-> <<"o">>,
      selfcal |-> sc, save_stats |-> st, save_pdf |-> extra, save_imgsums |-> extra,
      save_caltab |-> ~extra]) :
     sc \in BOOLEAN, st \in BOOLEAN, extra \in BOOLEAN}

TheUvfits == [zbl_tot |-> 2, data |-> <<Measurement(0, 0, <<3, 1>>, <<1, 2>>)>>]

Init ==
  /\ lists \in SurveyLists
  /\ built = TRUE
  /\ psets = create_survey_psets(lists)
  /\ params_fixed \in SurveyFixed
  /\ uvfits = TheUvfits
  /\ invocation = 0
  /\ pc = [r \in DOMAIN psets |-> "idle"]
  /\ self = [r \in DOMAIN psets |-> NoSelf]
  /\ img = [r \in DOMAIN psets |-> NoImg]
  /\ log = [r \in DOMAIN psets |-> NoLog]
  /\ files = {}
  /\ guard = [r \in DOMAIN psets |-> NoGuard]

Next ==
  \/ run_survey
  \/ \E r \in Rows : Step(r)
  \/ \E r \in Rows : Interrupt(r)

Spec == Init /\ [][Next]_vars


\* ------------------------------------------------------------------ make_img alone
\* One run standing at make_img, for every iteration count, with and without
\* self-calibration and with and without the diagnostic closure terms.

ImgLists ==
  {[DefaultLists EXCEPT !.sc_phase = <<n>>, !.sc_ap = <<m>>, !.xdw_phase = <<2>>,
                        !.xdw_ap = <<3>>, !.amp = <<a>>] :
     n \in 0..MaxSc, m \in 0..MaxSc, a \in {0, 2}}

ImgFixed ==
  {create_params_fixed(
     extra @@ [infile |-> <<"d">>, outfile_base |-> <<"b">>, outpath |-> <<"o">>,
               selfcal |-> sc]) :
     sc \in BOOLEAN,
     extra \in {NoSelf,
                [diag_closure |-> TRUE, logcamp_diag |-> 5, cphase_diag |-> 0]}}

InitImg ==
  /\ lists \in ImgLists
  /\ built = TRUE
  /\ psets = create_survey_psets(lists)
  /\ params_fixed \in ImgFixed
  /\ uvfits = TheUvfits
  /\ invocation = 1
  /\ pc = [r \in DOMAIN psets |-> "make_img"]
  /\ self = [r \in DOMAIN psets |->
               InitImgOf(PreimcalOf(LoadOf(ParameterSetInit(psets[r], params_fixed))))]
  /\ img = [r \in DOMAIN psets |-> NoImg]
  /\ log = [r \in DOMAIN psets |->
               [NoLog EXCEPT !.stages = <<"load_data", "preimcal", "init_img">>]]
  /\ files = {}
  /\ guard = [r \in DOMAIN psets |-> [NoGuard EXCEPT !.called = TRUE]]

NextImg ==
  \E r \in Rows : make_img(r) \/ phase_loop(r) \/ ap_loop(r) \/ make_img_end(r)

SpecImg == InitImg /\ [][NextImg]_vars

\* ------------------------------------------------------------------ the table alone

RECURSIVE SeqsUpTo(_, _)
\* the sequences over S of length at most n
SeqsUpTo(S, n) ==
  IF n = 0 THEN {<<>>}
  ELSE LET shorter == SeqsUpTo(S, n - 1)
       IN  shorter \cup {Append(q, x) : q \in shorter, x \in S}

TableLists ==
  {[DefaultLists EXCEPT !.zbl = a, !.sc_phase = b, !.sc_ap = c] :
     a \in SeqsUpTo({1, 2}, MaxListLen),
     b \in SeqsUpTo({0, 1}, MaxListLen),
     c \in SeqsUpTo({0, 2}, MaxListLen)}

InitTable ==
  /\ lists \in TableLists
  /\ built = FALSE
  /\ psets = <<>>
  /\ params_fixed = create_params_fixed(
       [infile |-> <<"d">>, outfile_base |-> <<"b">>, outpath |-> <<"o">>])
  /\ uvfits = TheUvfits
  /\ invocation = 0
  /\ pc = <<>>
  /\ self = <<>>
  /\ img = <<>>
  /\ log = <<>>
  /\ files = {}
  /\ guard = <<>>

\* psets = create_survey_psets(...)
BuildTable ==
  /\ ~built
  /\ built' = TRUE
  /\ psets' = create_survey_psets(lists)
  /\ UNCHANGED <<lists, params_fixed, uvfits, invocation, pc, self, img, log, files, guard>>

SpecTable == InitTable /\ [][BuildTable]_vars

\* ------------------------------------------------------------------ preimcal alone
\* One run standing at preimcal, for every small measurement table, target
\* flux, measured flux and cutoff.

CalData ==
  {q \in SeqsUpTo({Measurement(u, v, <<3, 1>>, <<1, 2>>) : u \in 0..MaxUV, v \in 0..1}, 2) :
     q # <<>>}

CalUvfits == {[zbl_tot |-> t, data |-> d] : t \in 1..MaxUV, d \in CalData}

InitCal ==
  /\ \E z \in 1..MaxUV : lists = [DefaultLists EXCEPT !.zbl = <<z>>]
  /\ built = TRUE
  /\ psets = create_survey_psets(lists)
  /\ \E cut \in 0..MaxUV :
        params_fixed = create_params_fixed(
          [infile |-> <<"d">>, outfile_base |-> <<"b">>, outpath |-> <<"o">>,
           uv_zblcut |-> cut])
  /\ uvfits \in CalUvfits
  /\ invocation = 1
  /\ pc = [r \in DOMAIN psets |-> "preimcal"]
  /\ self = [r \in DOMAIN psets |-> LoadOf(ParameterSetInit(psets[r], params_fixed))]
  /\ img = [r \in DOMAIN psets |-> NoImg]
  /\ log = [r \in DOMAIN psets |-> [NoLog EXCEPT !.stages = <<"load_data">>]]
  /\ files = {}
  /\ guard = [r \in DOMAIN psets |-> [NoGuard EXCEPT !.called = TRUE]]

NextCal == \E r \in Rows : preimcal(r)

SpecCal == InitCal /\ [][NextCal]_vars


\* ------------------------------------------------------------------ properties

\* the path of the params csv of row r, built character by character
MarkerPath(r) ==
  params_fixed.outpath \o <<"/">> \o params_fixed.outfile_base \o <<"_">>
    \o ZeroPad(DecDigits(r - 1), 7) \o SufParams

\* make_img has stored its image: it ended, normally or at the caltab line
MakeImgOver(r) == HasAttr(self[r], "im_out")

\* the self-calibration calls of make_img with the given method
SelfcalsIn(r, method) ==
  {k \in DOMAIN log[r].selfcal :
     /\ log[r].selfcal[k].method = method
     /\ log[r].selfcal[k].at \in {"static", "phase_loop", "ap_loop"}}

\* the iterations at which the weights were multiplied by the named factor
BoostsOf(r, factor) ==
  SelectSeq(log[r].boosts, LAMBDA b : b[1] = factor)

RECURSIVE Pow(_, _)
Pow(x, n) == IF n = 0 THEN 1 ELSE x * Pow(x, n - 1)

\* C1: the params csv of a run exists only if a run of that row has gone
\* through every stage (the statistics included when save_stats is set).
C1_MarkerAtomicity ==
  \A r \in Rows : \A f \in files :
     f.path = MarkerPath(r) => guard[r].completed

\* C2: when run() is called with the params csv present, no stage, imaging
\* or self-calibration call is made, the run ends, and the files at the
\* run's output paths stay as they were.
C2_ResumeGuard ==
  \A r \in Rows :
     (guard[r].called /\ guard[r].marker) =>
        /\ log[r] = NoLog
        /\ pc[r] = "done"
        /\ FilesOf(r) = guard[r].files

C2_Witness ==
  \E r \in Rows :
     /\ guard[r].called /\ guard[r].marker /\ pc[r] = "done"
     /\ invocation >= 2
     /\ Cardinality(FilesOf(r)) >= 3
     /\ \E r2 \in Rows : r2 # r /\ log[r2].writes # <<>>

\* C3: with selfcal false, make_img ends normally with an image after
\* exactly one imaging call and no self-calibration call.
C3_StaticOnly ==
  \A r \in Rows :
     (DOMAIN self[r] # {} /\ ~self[r].selfcal /\ MakeImgOver(r)) =>
        /\ pc[r] # "failed"
        /\ Len(log[r].imaging) = 1
        /\ SelfcalsIn(r, "phase") \cup SelfcalsIn(r, "both") = {}

\* C4 as stated: with selfcal true, sc_phase phase-only calls, sc_ap
\* amplitude+phase calls and exactly one xdw_phase boost, at iteration 0.
C4_Original ==
  \A r \in Rows :
     (DOMAIN self[r] # {} /\ self[r].selfcal /\ MakeImgOver(r)) =>
        /\ Cardinality(SelfcalsIn(r, "phase")) = self[r].sc_phase
        /\ Cardinality(SelfcalsIn(r, "both")) = self[r].sc_ap
        /\ BoostsOf(r, "xdw_phase") = << <<"xdw_phase", 0>> >>

\* C4 amended: with selfcal true, make_img makes sc_phase + 1 phase-only
\* calls (one after the static imaging, one per loop iteration), sc_ap
\* amplitude+phase calls and 1 + sc_phase + sc_ap imaging calls; the
\* xdw_phase boost is applied once, at iteration 0, when sc_phase >= 1 and
\* not at all when sc_phase = 0.
C4_LoopCounts ==
  \A r \in Rows :
     (DOMAIN self[r] # {} /\ self[r].selfcal /\ MakeImgOver(r)) =>
        /\ Cardinality(SelfcalsIn(r, "phase")) = self[r].sc_phase + 1
        /\ Cardinality({k \in SelfcalsIn(r, "phase") : log[r].selfcal[k].at = "static"}) = 1
        /\ Cardinality(SelfcalsIn(r, "both")) = self[r].sc_ap
        /\ Len(log[r].imaging) = 1 + self[r].sc_phase + self[r].sc_ap
        /\ BoostsOf(r, "xdw_phase") =
             IF self[r].sc_phase >= 1 THEN << <<"xdw_phase", 0>> >> ELSE <<>>

C4_Witness ==
  \E r \in Rows :
     /\ DOMAIN self[r] # {} /\ self[r].selfcal /\ MakeImgOver(r)
     /\ self[r].sc_phase = 2 /\ self[r].sc_ap = 0
     /\ Cardinality(SelfcalsIn(r, "phase")) = 3
     /\ Len(BoostsOf(r, "xdw_phase")) = 1

\* the decimal digits as a number
RECURSIVE DigitsValue(_)
DigitsValue(d) ==
  IF d = <<>> THEN 0
  ELSE 10 * DigitsValue(SubSeq(d, 1, Len(d) - 1))
       + (CHOOSE k \in 0..9 : DigitChars[k + 1] = d[Len(d)])

\* the output paths of row r
PathsOfRow(r) ==
  LET outfile == Outfile(params_fixed.outfile_base, psets[r].i)
  IN  {OutPath(params_fixed.outpath, outfile, suf) : suf \in Suffixes}

\* C5: the output basename of a row is outfile_base, '_' and the row index
\* as seven digits; two rows never share an output path, and every file at
\* an output path of a row was written by that row's own run.
C5_PathsDisjoint ==
  /\ \A r \in Rows :
        LET o == Outfile(params_fixed.outfile_base, psets[r].i)
            n == Len(params_fixed.outfile_base)
        IN  /\ Len(o) = n + 8
            /\ SubSeq(o, 1, n) = params_fixed.outfile_base
            /\ o[n + 1] = "_"
            /\ DigitsValue(SubSeq(o, n + 2, n + 8)) = r - 1
            /\ (DOMAIN self[r] # {} => self[r].outfile = o)
  /\ \A r1 \in Rows :
        LET paths == PathsOfRow(r1)
        IN  /\ \A r2 \in Rows : r1 # r2 => paths \cap PathsOfRow(r2) = {}
            /\ \A f \in files : f.path \in paths => f.by = r1

C5_Witness ==
  \E r1, r2 \in Rows :
     /\ r1 # r2
     /\ pc[r1] = "save_params" /\ pc[r2] = "save_params"
     /\ log[r1].writes # <<>> /\ log[r2].writes # <<>>
     /\ \E f1, f2 \in files : f1.by = r1 /\ f2.by = r2


\* the values of a sequence
Range(q) == {q[k] : k \in DOMAIN q}

\* a row without its index column
StripIndex(row) == [k \in DOMAIN row \ {"i"} |-> row[k]]

\* the choices of one position in each of the three lists the table
\* specification varies
Positions == (DOMAIN lists.zbl) \X (DOMAIN lists.sc_phase) \X (DOMAIN lists.sc_ap)

\* the row values a choice of positions selects
Selected(p) ==
  [k \in DOMAIN DefaultLists |->
     CASE k = "zbl"      -> lists.zbl[p[1]]
       [] k = "sc_phase" -> lists.sc_phase[p[2]]
       [] k = "sc_ap"    -> lists.sc_ap[p[3]]
       [] OTHER          -> lists[k][1]]

\* the product of the lengths of all value lists
RECURSIVE LenProduct(_)
LenProduct(names) ==
  IF names = <<>> THEN 1 ELSE Len(lists[Head(names)]) * LenProduct(Tail(names))

\* the row indices are 0..N-1, in row order
IndexContiguous == \A j \in DOMAIN psets : psets[j].i = j - 1

\* C6 as stated: the table has as many rows as the product of the list
\* lengths, every combination of values is exactly one row, and the indices
\* are 0..N-1.
C6_Original ==
  built =>
     /\ Len(psets) = LenProduct(ParamNames)
     /\ \A p \in Positions :
           Cardinality({j \in DOMAIN psets : StripIndex(psets[j]) = Selected(p)}) = 1
     /\ IndexContiguous

\* C6 amended: the table has as many rows as the product of the list
\* lengths; every combination of values is a row as many times as there are
\* choices of list positions that give it (so exactly once when no list
\* repeats a value); every row is such a combination; the indices are
\* 0..N-1 in row order.
C6_Table ==
  built =>
     /\ Len(psets) = LenProduct(ParamNames)
     /\ \A p \in Positions :
           Cardinality({j \in DOMAIN psets : StripIndex(psets[j]) = Selected(p)})
             = Cardinality({q \in Positions : Selected(q) = Selected(p)})
     /\ \A j \in DOMAIN psets : \E p \in Positions : StripIndex(psets[j]) = Selected(p)
     /\ IndexContiguous
     /\ Cardinality({psets[j].i : j \in DOMAIN psets}) = Len(psets)

C6_Witness ==
  /\ built
  /\ Len(psets) = 8
  /\ Cardinality(Range(lists.zbl)) = 1
  /\ Cardinality(Range(lists.sc_ap)) = 2

\* the baseline of a measurement is strictly shorter than the cutoff
IsShort(m, cut) == m.u * m.u + m.v * m.v < cut * cut

\* the field after is the field before times zbl / zbl_tot
ScaledExactly(before, after, zbl, zbl_tot) ==
  /\ after[2] # 0
  /\ after[1] * before[2] * zbl_tot = before[1] * zbl * after[2]

\* C7: after preimcal, when zbl < zbl_tot every measurement strictly below
\* uv_zblcut has each visibility and noise field multiplied by
\* zbl / zbl_tot and every other measurement is as it was loaded; when
\* zbl = zbl_tot every measurement is as it was loaded.
C7_Rescale ==
  \A r \in Rows :
     pc[r] = "init_img" =>
        LET before == uvfits.data
            after  == self[r].obs.data
            zbl    == self[r].zbl
            tot    == self[r].zbl_tot
            cut    == self[r].uv_zblcut
        IN  /\ DOMAIN after = DOMAIN before
            /\ self[r].obs_orig.data = before
            /\ zbl = tot => after = before
            /\ zbl < tot =>
                 \A j \in DOMAIN before :
                    IF IsShort(before[j], cut)
                    THEN /\ \A fld \in VisFields :
                               ScaledExactly(before[j][fld], after[j][fld], zbl, tot)
                         /\ after[j].u = before[j].u /\ after[j].v = before[j].v
                    ELSE after[j] = before[j]

C7_Witness ==
  \E r \in Rows :
     /\ pc[r] = "init_img"
     /\ self[r].zbl < self[r].zbl_tot
     /\ \E j, k \in DOMAIN uvfits.data :
           /\ IsShort(uvfits.data[j], self[r].uv_zblcut)
           /\ self[r].obs.data[j] # uvfits.data[j]
           /\ ~IsShort(uvfits.data[k], self[r].uv_zblcut)
           /\ uvfits.data[k].u * uvfits.data[k].u + uvfits.data[k].v * uvfits.data[k].v
                = self[r].uv_zblcut * self[r].uv_zblcut

\* an angle given in microarcseconds, converted to radians exactly once
ConvertedOnce(x, raw) == x.val = raw.val /\ x.exp = (IF raw.val = 0 THEN 0 ELSE 1)

ClaimedOrder(save_stats) ==
  <<"load_data", "preimcal", "init_img", "make_img", "output_results">>
    \o (IF save_stats THEN <<"save_statistics">> ELSE <<>>)
    \o <<"save_params">>

IsPrefix(a, b) == Len(a) <= Len(b) /\ a = SubSeq(b, 1, Len(a))

\* C9: the stages a run has started so far are an initial part of load,
\* calibrate, prior, image, output, statistics (when wanted), params.
C9_StageOrder ==
  \A r \in Rows :
     DOMAIN self[r] # {} => IsPrefix(log[r].stages, ClaimedOrder(self[r].save_stats))

FirstDataTerm(r) == log[r].imaging[1].data_term

\* the closure weight keys: standard and diagnostic, pairwise
ClosureKeys == {<<"logcamp", "logcamp_diag">>, <<"cphase", "cphase_diag">>}

\* C11: the data_term mapping passed to the optimizer holds only keys whose
\* own configured weight is present and nonzero, each with that weight; a
\* diagnostic closure key is in it only when diag_closure is set and the
\* diagnostic weight is present and nonzero, and never together with its
\* standard key; building the mapping does not fail.
C11_DataTermSelection ==
  \A r \in Rows :
     /\ ~(pc[r] = "failed" /\ log[r].imaging = <<>>)
     /\ log[r].imaging # <<>> =>
          LET s  == self[r]
              dt == FirstDataTerm(r)
          IN  /\ \A k \in DOMAIN dt : NonZeroAttr(s, k) /\ dt[k] = s[k]
              /\ \A k \in {"vis", "amp"} : NonZeroAttr(s, k) => k \in DOMAIN dt
              /\ \A p \in ClosureKeys :
                    /\ p[2] \in DOMAIN dt => DiagClosure(s) /\ NonZeroAttr(s, p[2])
                    /\ ~(p[1] \in DOMAIN dt /\ p[2] \in DOMAIN dt)
                    /\ (~DiagClosure(s) /\ NonZeroAttr(s, p[1])) => p[1] \in DOMAIN dt

\* C12: once the table and the fixed mapping are built, no step of a run
\* adds, removes or changes a key or a value of the fixed mapping (its
\* SEFD_error_budget included) or of a row of the table.
C12_InputsImmutable ==
  [][built => (params_fixed' = params_fixed /\ psets' = psets)]_vars

\* the snapshot preimcal takes of the tapered, noise-adjusted observation
Snapshot(r) ==
  PreimcalOf(LoadOf(ParameterSetInit(psets[r], params_fixed))).obs_sc_init

\* the library operations that apply calibration corrections
Calibrations == {"selfcal_phase", "selfcal_both", "applycal"}

\* C13: obs_sc_init stays the snapshot preimcal took; every self-calibration
\* call of the phase-only loop and of the amplitude+phase loop is given
\* obs_sc_init; the working observation obs_sc is at every moment
\* obs_sc_init with at most one calibration applied to it.
C13_SelfcalBaseline ==
  \A r \in Rows :
     HasAttr(self[r], "obs_sc_init") =>
        LET s    == self[r]
            base == s.obs_sc_init
            n    == Len(base.hist)
        IN  /\ base = Snapshot(r)
            /\ \A k \in DOMAIN base.hist : base.hist[k] \notin Calibrations
            /\ \A k \in DOMAIN log[r].selfcal :
                  log[r].selfcal[k].at \in {"phase_loop", "ap_loop"}
                     => log[r].selfcal[k].obs = base.hist
            /\ s.obs_sc.data = base.data
            /\ \/ s.obs_sc = base
               \/ /\ Len(s.obs_sc.hist) = n + 1
                  /\ SubSeq(s.obs_sc.hist, 1, n) = base.hist
                  /\ s.obs_sc.hist[n + 1] \in Calibrations

C13_Witness ==
  \E r \in Rows :
     /\ HasAttr(self[r], "obs_sc_init") /\ MakeImgOver(r)
     /\ Cardinality({k \in SelfcalsIn(r, "phase") : log[r].selfcal[k].at = "phase_loop"}) >= 1
     /\ Cardinality(SelfcalsIn(r, "both")) = 2
     /\ self[r].obs_sc.hist = Append(self[r].obs_sc_init.hist, "applycal")

\* the positions of a run from output_results on
OutputStages ==
  {"output_results", "save_caltab", "save_uvfits", "save_pdf", "save_imgsums",
   "save_params", "save_statistics"}

\* the parameters of row r give make_img no amplitude+phase round
NoApRound(r) == ~params_fixed.selfcal \/ psets[r].sc_ap <= 0

\* C14: a run is at or past output_results only after an amplitude+phase
\* self-calibration round. With selfcal false or sc_ap <= 0 the run ends in
\* make_img with im_out stored and caltab not, whatever save_caltab is; no
\* file is ever at one of its output paths; run() never finds its params
\* csv, and the run never completes.
C14_NoCaltabNoOutput ==
  \A r \in Rows :
     /\ (pc[r] \in OutputStages \/ (pc[r] = "done" /\ ~guard[r].marker))
          => Cardinality(SelfcalsIn(r, "both")) >= 1
     /\ NoApRound(r) =>
          /\ pc[r] \notin OutputStages \cup {"done"}
          /\ \A f \in files : f.path \notin PathsOfRow(r)
          /\ guard[r].called => ~guard[r].marker
          /\ ~guard[r].completed
          /\ pc[r] = "failed" =>
               /\ HasAttr(self[r], "im_out") /\ ~HasAttr(self[r], "caltab")
               /\ log[r].stages = <<"load_data", "preimcal", "init_img", "make_img">>
               /\ log[r].writes = <<>>

C14_Witness ==
  \E r, r2 \in Rows :
     /\ invocation = MaxInv
     /\ NoApRound(r) /\ params_fixed.selfcal /\ ~params_fixed.save_caltab
     /\ pc[r] = "failed" /\ HasAttr(self[r], "im_out")
     /\ log[r].stages[1] = "load_data"
     /\ ~NoApRound(r2) /\ pc[r2] = "done" /\ guard[r2].marker

====
